---- MODULE Spec2Model ----
(***************************************************************************)
(* today-todo-app: the authentication / session layer (server/_core/auth), *)
(* the tRPC router (server/routers) and the data-access layer (server/db)  *)
(* as a state machine.                                                     *)
(*                                                                         *)
(* Every handler of the router is a sequence of steps, one per awaited     *)
(* query of the store: the store executes one statement atomically, and    *)
(* between two awaits of one request the steps of other requests may run.  *)
(* A client (an element of Clients) holds a cookie jar and issues one      *)
(* request at a time; requests of different clients interleave.            *)
(* The connection state of server/db (conn) is established in the initial  *)
(* states of the router's specifications; SpecDb starts from a fresh       *)
(* process and follows getDb itself.                                       *)
(*                                                                         *)
(* Instants (JS Date) are records [d |-> local calendar day number,        *)
(* ms |-> millisecond of that day]; the local day has MsPerDay             *)
(* milliseconds (no DST change inside the modelled range).                 *)
(* A title or description is the string "a".repeat(n), written n.          *)
(***************************************************************************)
EXTENDS Integers, Sequences, FiniteSets, TLC

VARIABLES
  env,        \* process environment: DATABASE_URL, JWT_SECRET, DB_DIALECT (fixed at start)
  conn,       \* server/db module state: _db, _dialect, _sqlite, _planTableReady
  now,        \* the server clock: the local day number new Date() falls on
  users,      \* table users
  todos,      \* table todos
  nextTodoId, \* AUTO_INCREMENT counter of table todos
  planItems,  \* table plan_items
  nextPlanId, \* AUTO_INCREMENT counter of table plan_items
  cookie,     \* per client: the session cookie it holds
  pc,         \* per client: position of its request inside the handler
  req,        \* per client: the request in flight (input and handler locals)
  resp        \* per client: the response sent by the last step, NoResp when it sent none

vars == <<env, conn, now, users, todos, nextTodoId, planItems, nextPlanId, cookie, pc, req, resp>>

store == <<users, todos, nextTodoId, planItems, nextPlanId>>

----
\* Bounds of the model

MaxClock == 1
MaxTodos == 2
MaxPlans == 1
MaxHandles == 2

Clients == {"c1", "c2"}
Usernames == {"alice", "bob"}
Passwords == {"secret1", "secret2"}
Salts == {"salt1"}

----
\* Values

MsPerDay == 24 * 60 * 60 * 1000
LastMsOfDay == MsPerDay - 1
ClockMsOfDay == 12 * 3600 * 1000

Instant(d, ms) == [d |-> d, ms |-> ms]

\* Date.prototype.getTime() + n, for 0 <= n < MsPerDay
AddMs(t, n) ==
  IF t.ms + n >= MsPerDay THEN Instant(t.d + 1, t.ms + n - MsPerDay)
  ELSE Instant(t.d, t.ms + n)

\* a.getTime() < b.getTime()
Before(a, b) == a.d < b.d \/ (a.d = b.d /\ a.ms < b.ms)

\* a.getTime() >= b.getTime()
NotBefore(a, b) == ~Before(a, b)

\* new Date()
Now == Instant(now, ClockMsOfDay)

\* The calendar: day 0 is Monday 2024-01-01; the clock starts on Saturday
\* 2024-02-03 and the model stays inside the year.
ClockStart == 31 + 2
MonthStarts == {0, 31, 60, 91, 121, 152, 182, 213, 244, 274, 305, 335}

\* Date.prototype.getDay(): 0 is Sunday
getDay(d) == (d + 1) % 7

\* (issuedAt + ONE_YEAR_MS): ONE_YEAR_MS is 365 days of milliseconds
OneYearDays == 365

\* Math.floor(t / 1000) seconds, kept as an instant on a whole second
FloorToSecond(t) == Instant(t.d, (t.ms \div 1000) * 1000)

\* nearest whole second, halves up (MySQL's conversion to TIMESTAMP(0))
RoundToSecond(t) ==
  IF t.ms % 1000 >= 500 THEN AddMs(FloorToSecond(t), 1000) ELSE FloorToSecond(t)

----
\* server/db: dialect and connection

\* A connection string or an environment value is the sequence of its
\* characters.
UpperCase ==
  <<"A", "B", "C", "D", "E", "F", "G", "H", "I", "J", "K", "L", "M",
    "N", "O", "P", "Q", "R", "S", "T", "U", "V", "W", "X", "Y", "Z">>
LowerCase ==
  <<"a", "b", "c", "d", "e", "f", "g", "h", "i", "j", "k", "l", "m",
    "n", "o", "p", "q", "r", "s", "t", "u", "v", "w", "x", "y", "z">>

\* String.prototype.toLowerCase()
toLowerCase(str) ==
  [i \in DOMAIN str |->
     IF \E k \in DOMAIN UpperCase : UpperCase[k] = str[i]
     THEN LowerCase[CHOOSE k \in DOMAIN UpperCase : UpperCase[k] = str[i]]
     ELSE str[i]]

\* String.prototype.startsWith(prefix)
startsWith(str, prefix) ==
  Len(str) >= Len(prefix) /\ SubSeq(str, 1, Len(prefix)) = prefix

\* str ends with suffix
endsWith(str, suffix) ==
  Len(str) >= Len(suffix) /\ SubSeq(str, Len(str) - Len(suffix) + 1, Len(str)) = suffix

NoUrl == <<>>
MysqlUrl == <<"m", "y", "s", "q", "l", ":", "/", "/", "d", "b", "/", "t", "o", "d", "o">>
SqliteUrl == <<"s", "q", "l", "i", "t", "e", ":", "d", "a", "t", "a", ".", "d", "b">>
DatabaseUrls == {NoUrl, MysqlUrl, SqliteUrl}
NoSecret == ""
Secrets == {NoSecret, "jwt-secret"}

\* process.env.DB_DIALECT: {} when it is not set
NoOverride == {}
Mysql == <<"m", "y", "s", "q", "l">>
Sqlite == <<"s", "q", "l", "i", "t", "e">>
SqlitePrefix == <<"s", "q", "l", "i", "t", "e", ":">>
FilePrefix == <<"f", "i", "l", "e", ":">>
SqliteSuffixes == {<<".", "d", "b">>, <<".", "s", "q", "l", "i", "t", "e">>, <<".", "s", "q", "l", "i", "t", "e", "3">>}

\* /\.(db|sqlite|sqlite3)$/i.test(str)
SqliteFilePattern(str) == \E suffix \in SqliteSuffixes : endsWith(toLowerCase(str), suffix)

\* mutant: the DB_DIALECT override is not read
resolveDialect_Inferred(databaseUrl) ==
  IF startsWith(databaseUrl, SqlitePrefix) \/ startsWith(databaseUrl, FilePrefix)
  THEN "sqlite"
  ELSE IF SqliteFilePattern(databaseUrl) THEN "sqlite"
  ELSE "mysql"

\* resolveDialect: the lower-cased DB_DIALECT when it names a dialect, else
\* inferred from the connection string
resolveDialect(databaseUrl) ==
  LET override == {toLowerCase(v) : v \in env.dbDialect} IN
  IF override = {Mysql} THEN "mysql"
  ELSE IF override = {Sqlite} THEN "sqlite"
  ELSE IF startsWith(databaseUrl, SqlitePrefix) \/ startsWith(databaseUrl, FilePrefix)
  THEN "sqlite"
  ELSE IF SqliteFilePattern(databaseUrl) THEN "sqlite"
  ELSE "mysql"

\* A connection handle (the drizzle client): each construction makes a new
\* object, told apart by its ordinal; it talks the dialect it was made for.
Handle(n, dialect) == [id |-> n, dialect |-> dialect]

\* the module state before the first getDb
NoConn ==
  [db |-> {}, dialect |-> "", sqlite |-> {}, planTableReady |-> FALSE, created |-> 0]

\* the module state once getDb has connected and ensured table plan_items
Connected(databaseUrl) ==
  IF databaseUrl = NoUrl THEN NoConn
  ELSE [db |-> {Handle(1, resolveDialect(databaseUrl))},
        dialect |-> resolveDialect(databaseUrl),
        sqlite |-> IF resolveDialect(databaseUrl) = "sqlite" THEN {1} ELSE {},
        planTableReady |-> TRUE,
        created |-> 1]

\* `const db = await getDb(); if (!db) ...`: getDb returned a handle
DbAvailable == conn.db # {}

\* getDialect: the cached _dialect, else resolved from the connection string,
\* "" (null) without one
getDialect ==
  IF conn.dialect # "" THEN conn.dialect
  ELSE IF env.databaseUrl = NoUrl THEN ""
  ELSE resolveDialect(env.databaseUrl)

\* mutant: the schema tables are always those of mysql
getSchema_Mysql == "mysql"

\* getSchema: schemas[getDialect() ?? "mysql"], named by its dialect
getSchema == IF getDialect = "" THEN "mysql" ELSE getDialect

\* A Date written to a timestamp column and read back: the sqlite schema
\* stores integer seconds (mode "timestamp": Math.floor(ms / 1000)); the mysql
\* schema declares timestamp without fractional seconds, which the server
\* rounds to the nearest second.
ColumnTimestamp(t) ==
  IF getSchema = "sqlite" THEN FloorToSecond(t) ELSE RoundToSecond(t)

----
\* server/_core/auth

\* scrypt(password, salt) as an injective pairing; the stored hash is salt:key
hashPassword(password, salt) == [salt |-> salt, key |-> <<password, salt>>]

\* mutant: the key is derived without the stored salt
verifyPassword_NoSalt(password, storedHash) ==
  /\ storedHash.salt # ""
  /\ storedHash.key # <<>>
  /\ <<password, "">> = storedHash.key

\* mutant: only the shape of the stored hash is checked
verifyPassword_ShapeOnly(password, storedHash) ==
  /\ storedHash.salt # ""
  /\ storedHash.key # <<>>

verifyPassword(password, storedHash) ==
  /\ storedHash.salt # ""
  /\ storedHash.key # <<>>
  /\ <<password, storedHash.salt>> = storedHash.key

\* mutant: the user record is returned as it is stored
sanitizeUser_Keep(user) == user

sanitizeUser(user) == [f \in (DOMAIN user) \ {"passwordHash"} |-> user[f]]

\* getSessionSecret: it throws when JWT_SECRET is not configured
getSessionSecret ==
  IF env.cookieSecret = NoSecret
  THEN [threw |-> TRUE, key |-> NoSecret]
  ELSE [threw |-> FALSE, key |-> env.cookieSecret]

\* new SignJWT({userId}).setProtectedHeader({alg}).setExpirationTime(
\* Math.floor((issuedAt + ONE_YEAR_MS) / 1000)).sign(secretKey)
SignJWT(userId, issuedAt, secretKey) ==
  [userId |-> userId,
   idType |-> "number",
   exp |-> FloorToSecond(Instant(issuedAt.d + OneYearDays, issuedAt.ms)),
   alg |-> "HS256",
   key |-> secretKey,
   form |-> "jwt"]

\* createSessionToken: {} when getSessionSecret throws, else the signed token
createSessionToken(userId) ==
  IF getSessionSecret.threw THEN {}
  ELSE {SignJWT(userId, Now, getSessionSecret.key)}

\* mutant: the exp claim is not checked
jwtVerify_NoExpiry(token, secretKey) ==
  IF /\ token.form = "jwt"
     /\ token.alg = "HS256"
     /\ token.key = secretKey
  THEN [threw |-> FALSE, payload |-> {token}]
  ELSE [threw |-> TRUE, payload |-> {}]

\* mutant: a token issued before the user's latest sign-in is refused
jwtVerify_LatestLogin(token, secretKey) ==
  IF /\ token.form = "jwt"
     /\ token.alg = "HS256"
     /\ token.key = secretKey
     /\ Before(FloorToSecond(Now), token.exp)
     /\ ~\E u \in users :
           /\ u.id = token.userId
           /\ Before(Instant(token.exp.d - OneYearDays, token.exp.ms), u.lastSignedIn)
  THEN [threw |-> FALSE, payload |-> {token}]
  ELSE [threw |-> TRUE, payload |-> {}]

\* jwtVerify(token, secretKey, {algorithms: ["HS256"]}): it throws on a string
\* that is no JWT, on another algorithm, on a signature of another key and on
\* exp <= the current second
jwtVerify(token, secretKey) ==
  IF /\ token.form = "jwt"
     /\ token.alg = "HS256"
     /\ token.key = secretKey
     /\ Before(FloorToSecond(Now), token.exp)
  THEN [threw |-> FALSE, payload |-> {token}]
  ELSE [threw |-> TRUE, payload |-> {}]

\* payload.userId as verifySessionToken reads it: a number as it is, a
\* non-blank string through Number() unless that is NaN, nothing else
UserIdOf(payload) ==
  IF payload.idType \in {"number", "numeric string"} THEN {payload.userId} ELSE {}

\* mutant: verifySessionToken without its try/catch
VerifyOutcome_NoCatch(token) ==
  IF getSessionSecret.threw \/ jwtVerify(token, getSessionSecret.key).threw
  THEN [threw |-> TRUE, value |-> {}]
  ELSE [threw |-> FALSE,
        value |-> UNION {UserIdOf(t) : t \in jwtVerify(token, getSessionSecret.key).payload}]

\* the body of verifySessionToken: what it returns (value, {} for null) and
\* whether an exception leaves it
VerifyOutcome(token) ==
  IF getSessionSecret.threw \/ jwtVerify(token, getSessionSecret.key).threw
  THEN [threw |-> FALSE, value |-> {}]
  ELSE [threw |-> FALSE,
        value |-> UNION {UserIdOf(t) : t \in jwtVerify(token, getSessionSecret.key).payload}]

\* verifySessionToken: the user id inside a validly signed, unexpired token
verifySessionToken(token) == VerifyOutcome(token).value

\* .limit(1) of a result set
Limit1(rows) == IF rows = {} THEN {} ELSE {CHOOSE r \in rows : TRUE}

getUserByUsername(username) ==
  IF ~DbAvailable THEN {} ELSE Limit1({u \in users : u.username = username})

getUserById(userId) ==
  IF ~DbAvailable THEN {} ELSE Limit1({u \in users : u.id = userId})

\* authenticateRequest: the sanitized user of the session cookie, {} when it throws
authenticateRequest(p) ==
  IF cookie[p] = {} THEN {}
  ELSE LET ids == verifySessionToken(CHOOSE t \in cookie[p] : TRUE) IN
       IF ids = {} \/ ids = {0} THEN {}
       ELSE LET found == getUserById(CHOOSE i \in ids : TRUE) IN
            {sanitizeUser(u) : u \in found}

\* authenticateRequest: the error it throws, {} when it returns a user
authenticateRequestError(p) ==
  IF cookie[p] = {}
  THEN {[error |-> "ForbiddenError", message |-> "Missing session cookie"]}
  ELSE LET ids == verifySessionToken(CHOOSE t \in cookie[p] : TRUE) IN
       IF ids = {} \/ ids = {0}
       THEN {[error |-> "ForbiddenError", message |-> "Invalid session cookie"]}
       ELSE IF getUserById(CHOOSE i \in ids : TRUE) = {}
       THEN {[error |-> "ForbiddenError", message |-> "User not found"]}
       ELSE {}

----
\* Requests and responses

NoReq == [op |-> "none"]
NoResp == [op |-> "none", code |-> "none"]

Quiet == [p \in Clients |-> NoResp]

\* the client's request ends: its response is sent and the handler is left
Complete(p, r) ==
  /\ resp' = [Quiet EXCEPT ![p] = r]
  /\ pc' = [pc EXCEPT ![p] = "idle"]
  /\ req' = [req EXCEPT ![p] = NoReq]

\* the handler moves to its next awaited query
Goto(p, label, r) ==
  /\ pc' = [pc EXCEPT ![p] = label]
  /\ req' = [req EXCEPT ![p] = r]
  /\ resp' = Quiet

Init ==
  /\ env \in [databaseUrl : DatabaseUrls, cookieSecret : Secrets,
            dbDialect : {NoOverride}]
  /\ conn = Connected(env.databaseUrl)
  /\ now = ClockStart
  /\ users = {}
  /\ todos = {}
  /\ nextTodoId = 1
  /\ planItems = {}
  /\ nextPlanId = 1
  /\ cookie = [p \in Clients |-> {}]
  /\ pc = [p \in Clients |-> "idle"]
  /\ req = [p \in Clients |-> NoReq]
  /\ resp = Quiet

\* the clock advances
Tick ==
  /\ now < ClockStart + MaxClock
  /\ now' = now + 1
  /\ resp' = Quiet
  /\ UNCHANGED <<env, conn, store, cookie, pc, req>>

----
\* appRouter.auth

\* mutant: the table has no unique index on username
InsertUser_NoIndex(rows, values) ==
  [ok |-> TRUE, rows |-> rows \cup {[id |-> Cardinality(rows) + 1] @@ values}]

\* INSERT INTO users under the unique index users_username_unique: the
\* statement fails when the username is taken
InsertUser(rows, values) ==
  IF \E u \in rows : u.username = values.username
  THEN [ok |-> FALSE, rows |-> rows]
  ELSE [ok |-> TRUE,
        rows |-> rows \cup {[id |-> Cardinality(rows) + 1] @@ values}]

\* createUser: the values it inserts
UserValues(username, passwordHash) ==
  [username |-> username,
   passwordHash |-> passwordHash,
   updatedAt |-> ColumnTimestamp(Now),
   lastSignedIn |-> ColumnTimestamp(Now)]

createUser(username, passwordHash) ==
  InsertUser(users, UserValues(username, passwordHash))

\* updateUserLastSignedIn
updateUserLastSignedIn(userId) ==
  {IF u.id = userId
   THEN [u EXCEPT !.lastSignedIn = ColumnTimestamp(Now),
                  !.updatedAt = ColumnTimestamp(Now)]
   ELSE u : u \in users}

\* mutant: register does not look the username up before inserting
RegisterCall_NoLookup(p, username, password, salt) ==
  /\ pc[p] = "idle"
  /\ Goto(p, "register_insert",
          [op |-> "register", username |-> username, password |-> password,
           passwordHash |-> hashPassword(password, salt)])
  /\ UNCHANGED <<env, conn, now, store, cookie>>

\* auth.register up to its first await: getUserByUsername, then hashPassword
RegisterCall(p, username, password, salt) ==
  /\ pc[p] = "idle"
  /\ LET r == [op |-> "register", username |-> username, password |-> password] IN
     IF getUserByUsername(username) # {}
     THEN Complete(p, r @@ [code |-> "CONFLICT"])
     ELSE Goto(p, "register_insert",
               r @@ [passwordHash |-> hashPassword(password, salt)])
  /\ UNCHANGED <<env, conn, now, store, cookie>>

\* auth.register: await createUser(...)
RegisterInsert(p) ==
  /\ pc[p] = "register_insert"
  /\ LET r == [op |-> "register", username |-> req[p].username,
               password |-> req[p].password]
         ins == createUser(req[p].username, req[p].passwordHash) IN
     IF ~DbAvailable \/ ~ins.ok
     THEN /\ Complete(p, r @@ [code |-> "INTERNAL_SERVER_ERROR"])
          /\ UNCHANGED users
     ELSE /\ users' = ins.rows
          /\ Goto(p, "register_read", req[p])
  /\ UNCHANGED <<env, conn, now, todos, nextTodoId, planItems, nextPlanId, cookie>>

\* auth.register: getUserByUsername again, createSessionToken, set the cookie
RegisterRead(p) ==
  /\ pc[p] = "register_read"
  /\ LET r == [op |-> "register", username |-> req[p].username,
               password |-> req[p].password]
         found == getUserByUsername(req[p].username) IN
     IF found = {}
     THEN /\ Complete(p, r @@ [code |-> "INTERNAL_SERVER_ERROR",
                               message |-> "Failed to create user"])
          /\ UNCHANGED cookie
     ELSE LET user == CHOOSE u \in found : TRUE
              token == createSessionToken(user.id) IN
          IF token = {}
          THEN /\ Complete(p, r @@ [code |-> "INTERNAL_SERVER_ERROR",
                                    message |-> "JWT_SECRET is not configured"])
               /\ UNCHANGED cookie
          ELSE /\ cookie' = [cookie EXCEPT ![p] = token]
               /\ Complete(p, r @@ [code |-> "OK", out |-> sanitizeUser(user)])
  /\ UNCHANGED <<env, conn, now, store>>

\* auth.login up to its first await: getUserByUsername, then verifyPassword
LoginCall(p, username, password) ==
  /\ pc[p] = "idle"
  /\ LET r == [op |-> "login", username |-> username, password |-> password]
         found == getUserByUsername(username) IN
     IF found = {} \/ ~verifyPassword(password, (CHOOSE u \in found : TRUE).passwordHash)
     THEN Complete(p, r @@ [code |-> "UNAUTHORIZED",
                            message |-> "Invalid username or password"])
     ELSE Goto(p, "login_update", r @@ [user |-> CHOOSE u \in found : TRUE])
  /\ UNCHANGED <<env, conn, now, store, cookie>>

\* auth.login: updateUserLastSignedIn, createSessionToken, set the cookie
LoginUpdate(p) ==
  /\ pc[p] = "login_update"
  /\ users' = updateUserLastSignedIn(req[p].user.id)
  /\ LET r == [op |-> "login", username |-> req[p].username,
               password |-> req[p].password]
         token == createSessionToken(req[p].user.id) IN
     IF token = {}
     THEN /\ Complete(p, r @@ [code |-> "INTERNAL_SERVER_ERROR",
                               message |-> "JWT_SECRET is not configured"])
          /\ UNCHANGED cookie
     ELSE /\ cookie' = [cookie EXCEPT ![p] = token]
          /\ Complete(p, r @@ [code |-> "OK", out |-> sanitizeUser(req[p].user)])
  /\ UNCHANGED <<env, conn, now, todos, nextTodoId, planItems, nextPlanId>>

\* auth.logout: clearCookie(COOKIE_NAME, {...cookieOptions, maxAge: -1}), on
\* which the client drops its cookie; {success: true}
Logout(p) ==
  /\ pc[p] = "idle"
  /\ cookie' = [cookie EXCEPT ![p] = {}]
  /\ Complete(p, [op |-> "logout", code |-> "OK", success |-> TRUE, maxAge |-> 0 - 1])
  /\ UNCHANGED <<env, conn, now, store>>

\* a request reaches authenticateRequest (the context of every request)
Authenticate(p) ==
  /\ pc[p] = "idle"
  /\ LET r == [op |-> "authenticate", cookie |-> cookie[p]] IN
     IF authenticateRequestError(p) # {}
     THEN Complete(p, r @@ [code |-> "FORBIDDEN",
                            error |-> CHOOSE e \in authenticateRequestError(p) : TRUE])
     ELSE Complete(p, r @@ [code |-> "OK",
                            out |-> CHOOSE u \in authenticateRequest(p) : TRUE])
  /\ UNCHANGED <<env, conn, now, store, cookie>>

\* verifySessionToken applied to the client's session cookie
VerifySession(p) ==
  /\ pc[p] = "idle"
  /\ cookie[p] # {}
  /\ LET token == CHOOSE t \in cookie[p] : TRUE
         r == [op |-> "verify", token |-> token] IN
     IF VerifyOutcome(token).threw
     THEN Complete(p, r @@ [code |-> "THROWN"])
     ELSE Complete(p, r @@ [code |-> "OK", out |-> VerifyOutcome(token).value])
  /\ UNCHANGED <<env, conn, now, store, cookie>>

----
\* server/_core/trpc: protectedProcedure and the zod input parser

MaxTitleLength == 500
MaxDescriptionLength == 2000

\* mutant: the title's maximum length is not checked
ValidTitle_NoMax(title) == title >= 1

ValidTitle(title) == title >= 1 /\ title <= MaxTitleLength
ValidDescription(description) == \A n \in description : n <= MaxDescriptionLength

\* mutant: the object schema lets unknown keys through
zodObject_Passthrough(input, keys) == input

\* z.object({...}) parsing an input: the declared keys are kept, unknown keys
\* are stripped
zodObject(input, keys) == [f \in (DOMAIN input) \cap keys |-> input[f]]

\* the requireUser middleware of protectedProcedure: ctx.user is not null
requireUser(p) == authenticateRequest(p) # {}

\* A protected procedure before its handler runs: the context's user is
\* authenticateRequest's (null when it throws), requireUser rejects a null
\* user, then the input is parsed. The outcome is the error code, "" to go on.
\* Nothing the handler reads changes between these awaits and the handler's
\* first query, so they are one step with it.
Rejected(p, valid) ==
  IF ~requireUser(p) THEN "UNAUTHORIZED"
  ELSE IF ~valid THEN "BAD_REQUEST"
  ELSE ""

\* ctx.user.id
Me(p) ==
  LET ctxUser == authenticateRequest(p) IN
  IF ctxUser = {} THEN 0 ELSE (CHOOSE u \in ctxUser : TRUE).id

\* a procedure that is rejected, or else runs its handler's first step
Procedure(p, r, valid, handler) ==
  /\ pc[p] = "idle"
  /\ IF Rejected(p, valid) # ""
     THEN /\ Complete(p, r @@ [user |-> Me(p), code |-> Rejected(p, valid)])
          /\ UNCHANGED store
     ELSE handler
  /\ UNCHANGED <<env, conn, now, cookie>>

----
\* server/db: todo queries

\* mutant: the id is the number of rows plus one, so a deleted id is given again
createTodo_CountId(userId, todo) ==
  [id |-> Cardinality(todos) + 1, userId |-> userId,
   updatedAt |-> ColumnTimestamp(Now)] @@ todo

\* createTodo: the row inserted; updatedAt is the column default (now)
createTodo(userId, todo) ==
  [id |-> nextTodoId, userId |-> userId, updatedAt |-> ColumnTimestamp(Now)] @@ todo

\* mutant: the row is looked up by id alone
getTodoById_AnyOwner(id, userId) ==
  Limit1({t \in todos : t.id = id})

getTodoById(id, userId) ==
  Limit1({t \in todos : t.id = id /\ t.userId = userId})

\* startOfDay.setHours(0, 0, 0, 0)
StartOfDay(t) == Instant(t.d, 0)

\* endOfDay.setHours(23, 59, 59, 999)
EndOfDay(t) == Instant(t.d, LastMsOfDay)

\* and(gte(dueDate, from), lt(dueDate, new Date(to.getTime() + 1)))
DueWithin(t, from, to) ==
  \E due \in t.dueDate : NotBefore(due, from) /\ Before(due, AddMs(to, 1))

getTodosByUserId(userId, dueDate) ==
  IF dueDate = {} THEN {t \in todos : t.userId = userId}
  ELSE LET date == CHOOSE x \in dueDate : TRUE IN
       {t \in todos : t.userId = userId /\ DueWithin(t, StartOfDay(date), EndOfDay(date))}

getTodosDateRange(userId, startDate, endDate) ==
  {t \in todos : t.userId = userId /\ DueWithin(t, StartOfDay(startDate), EndOfDay(endDate))}

\* the value a column takes from a field of .set(...)
ColumnValue(field, value) ==
  CASE field = "dueDate" -> {ColumnTimestamp(value)}
    [] field = "description" -> {value}
    [] OTHER -> value

\* mutant: the completed flag of the updates is dropped
SetTodo_KeepCompleted(t, updates) ==
  [f \in DOMAIN t |->
     IF f \in DOMAIN updates /\ f # "completed" THEN ColumnValue(f, updates[f])
     ELSE IF f = "updatedAt" THEN ColumnTimestamp(Now)
     ELSE t[f]]

\* mutant: a completed flag that is not supplied is written as false
SetTodo_ResetCompleted(t, updates) ==
  [f \in DOMAIN t |->
     IF f \in DOMAIN updates THEN ColumnValue(f, updates[f])
     ELSE IF f = "updatedAt" THEN ColumnTimestamp(Now)
     ELSE IF f = "completed" THEN FALSE
     ELSE t[f]]

\* .set(nextUpdates) on one row: the supplied fields, and updatedAt = new Date()
SetTodo(t, updates) ==
  [f \in DOMAIN t |->
     IF f \in DOMAIN updates THEN ColumnValue(f, updates[f])
     ELSE IF f = "updatedAt" THEN ColumnTimestamp(Now)
     ELSE t[f]]

\* mutant: a row that is missing is written anew from the update
updateTodo_Upsert(id, userId, updates) ==
  IF \E t \in todos : t.id = id /\ t.userId = userId
  THEN {IF t.id = id /\ t.userId = userId THEN SetTodo(t, updates) ELSE t : t \in todos}
  ELSE todos \cup
         {[id |-> id, userId |-> userId, updatedAt |-> ColumnTimestamp(Now),
           title |-> 1, dueDate |-> {ColumnTimestamp(Now)}, description |-> {},
           completed |-> "completed" \in DOMAIN updates /\ updates.completed]}

updateTodo(id, userId, updates) ==
  {IF t.id = id /\ t.userId = userId THEN SetTodo(t, updates) ELSE t : t \in todos}

\* the number of rows the WHERE clause of updateTodo and deleteTodo matches
AffectedRows(id, userId) ==
  Cardinality({t \in todos : t.id = id /\ t.userId = userId})

deleteTodo(id, userId) ==
  {t \in todos : ~(t.id = id /\ t.userId = userId)}

----
\* appRouter.todo

\* todo.create: the handler's todoData
TodoData(title, description, dueDate) ==
  [title |-> title,
   dueDate |-> IF dueDate = {} THEN {ColumnTimestamp(Now)}
               ELSE {ColumnTimestamp(t) : t \in dueDate},
   completed |-> FALSE,
   description |-> {n \in description : n > 0}]

TodoCreate(p, title, description, dueDate) ==
  LET r == [op |-> "todo.create", user |-> Me(p), title |-> title,
            description |-> description, dueDate |-> dueDate] IN
  Procedure(p, [op |-> "todo.create", title |-> title,
                description |-> description, dueDate |-> dueDate],
    ValidTitle(title) /\ ValidDescription(description),
    /\ nextTodoId <= MaxTodos
    /\ todos' = todos \cup {createTodo(Me(p), TodoData(title, description, dueDate))}
    /\ nextTodoId' = nextTodoId + 1
    /\ Complete(p, r @@ [code |-> "OK", out |-> nextTodoId])
    /\ UNCHANGED <<users, planItems, nextPlanId>>)

TodoList(p, date) ==
  LET r == [op |-> "todo.list", user |-> Me(p), date |-> date] IN
  Procedure(p, [op |-> "todo.list", date |-> date], TRUE,
    /\ Complete(p, r @@ [code |-> "OK", out |-> getTodosByUserId(Me(p), date)])
    /\ UNCHANGED store)

TodoHistory(p, startDate, endDate) ==
  LET r == [op |-> "todo.history", user |-> Me(p), startDate |-> startDate,
            endDate |-> endDate] IN
  Procedure(p, [op |-> "todo.history", startDate |-> startDate, endDate |-> endDate],
    TRUE,
    /\ Complete(p, r @@ [code |-> "OK",
                         out |-> getTodosDateRange(Me(p), startDate, endDate)])
    /\ UNCHANGED store)

\* the first await of get, update, delete and toggle: getTodoById, NOT_FOUND
\* when absent; of the row found the handlers use the completed flag only
\* (affected: the rows the handler's write statement matched, none so far)
TodoLookup(p, r, found, next) ==
  /\ IF found = {}
     THEN Complete(p, r @@ [code |-> "NOT_FOUND"])
     ELSE IF next = "idle"
     THEN Complete(p, r @@ [code |-> "OK", out |-> found])
     ELSE Goto(p, next, r @@ [completed |-> (CHOOSE t \in found : TRUE).completed,
                              affected |-> 0])
  /\ UNCHANGED store

TodoGet(p, id) ==
  Procedure(p, [op |-> "todo.get", id |-> id], TRUE,
    TodoLookup(p, [op |-> "todo.get", user |-> Me(p), id |-> id],
               getTodoById(id, Me(p)), "idle"))

\* the keys of todo.update's input schema besides id
TodoUpdateKeys == {"title", "description", "completed", "dueDate"}

\* todo.update: the parsed input without its id is the handler's updates
TodoUpdate(p, id, input) ==
  LET updates == zodObject(input, TodoUpdateKeys) IN
  Procedure(p, [op |-> "todo.update", id |-> id, updates |-> updates, input |-> input],
    /\ ("title" \in DOMAIN updates => ValidTitle(updates.title))
    /\ ("description" \in DOMAIN updates => ValidDescription({updates.description})),
    TodoLookup(p, [op |-> "todo.update", user |-> Me(p), id |-> id,
                   updates |-> updates, input |-> input],
               getTodoById(id, Me(p)), "todo_update_set"))

\* todo.update: await updateTodo(id, ctx.user.id, updates)
TodoUpdateSet(p) ==
  /\ pc[p] = "todo_update_set"
  /\ todos' = updateTodo(req[p].id, req[p].user, req[p].updates)
  /\ Goto(p, "todo_update_read", req[p])
  /\ UNCHANGED <<env, conn, now, users, nextTodoId, planItems, nextPlanId, cookie>>

\* the request as it is echoed in the response
Echo(p) == [f \in (DOMAIN req[p]) \ {"completed", "affected"} |-> req[p][f]]

\* the last await of update and toggle: return await getTodoById(...)
TodoReadBack(p, here) ==
  /\ pc[p] = here
  /\ Complete(p, Echo(p) @@ [code |-> "OK",
                             out |-> getTodoById(req[p].id, req[p].user)])
  /\ UNCHANGED <<env, conn, now, store, cookie>>

TodoUpdateRead(p) == TodoReadBack(p, "todo_update_read")

TodoDelete(p, id) ==
  Procedure(p, [op |-> "todo.delete", id |-> id], TRUE,
    TodoLookup(p, [op |-> "todo.delete", user |-> Me(p), id |-> id],
               getTodoById(id, Me(p)), "todo_delete_del"))

\* todo.delete: await deleteTodo(input.id, ctx.user.id)
TodoDeleteDel(p) ==
  /\ pc[p] = "todo_delete_del"
  /\ todos' = deleteTodo(req[p].id, req[p].user)
  /\ Complete(p, Echo(p) @@ [code |-> "OK"])
  /\ UNCHANGED <<env, conn, now, users, nextTodoId, planItems, nextPlanId, cookie>>

TodoToggle(p, id) ==
  Procedure(p, [op |-> "todo.toggle", id |-> id], TRUE,
    TodoLookup(p, [op |-> "todo.toggle", user |-> Me(p), id |-> id],
               getTodoById(id, Me(p)), "todo_toggle_set"))

\* todo.toggle: await updateTodo(input.id, ctx.user.id, {completed: !todo.completed})
TodoToggleSet(p) ==
  /\ pc[p] = "todo_toggle_set"
  /\ todos' = updateTodo(req[p].id, req[p].user, [completed |-> ~req[p].completed])
  /\ Goto(p, "todo_toggle_read",
          [req[p] EXCEPT !.affected = AffectedRows(req[p].id, req[p].user)])
  /\ UNCHANGED <<env, conn, now, users, nextTodoId, planItems, nextPlanId, cookie>>

TodoToggleRead(p) == TodoReadBack(p, "todo_toggle_read")

----
\* appRouter.plan and server/db: plan queries

\* mutant: the week starts on Sunday
getWeekStart_Sunday(date) == Instant(date.d - getDay(date.d), 0)

getWeekStart(date) ==
  LET day == getDay(date.d)
      diff == IF day = 0 THEN 0 - 6 ELSE 1 - day IN
  Instant(date.d + diff, 0)

getMonthStart(date) ==
  Instant(CHOOSE m \in MonthStarts :
            m <= date.d /\ \A k \in MonthStarts : k <= date.d => k <= m, 0)

getPlanPeriodStart(type, anchor) ==
  IF type = "week" THEN getWeekStart(anchor) ELSE getMonthStart(anchor)

createPlanItem(userId, input) ==
  [id |-> nextPlanId,
   userId |-> userId,
   periodType |-> input.periodType,
   periodStart |-> ColumnTimestamp(input.periodStart),
   title |-> input.title,
   description |-> input.description,
   completed |-> FALSE,
   updatedAt |-> ColumnTimestamp(Now)]

getPlanItemsByPeriod(userId, periodType, periodStart) ==
  {i \in planItems : /\ i.userId = userId
                     /\ i.periodType = periodType
                     /\ i.periodStart = periodStart}

getPlanItemById(userId, id) ==
  Limit1({i \in planItems : i.id = id /\ i.userId = userId})

\* mutant: an update moves the item to the period of the update
updatePlanItem_Restamp(userId, id, updates) ==
  {IF i.id = id /\ i.userId = userId
   THEN [f \in DOMAIN i |->
           IF f \in DOMAIN updates THEN updates[f]
           ELSE IF f \in {"updatedAt", "periodStart"} THEN ColumnTimestamp(Now)
           ELSE i[f]]
   ELSE i : i \in planItems}

updatePlanItem(userId, id, updates) ==
  {IF i.id = id /\ i.userId = userId
   THEN [f \in DOMAIN i |->
           IF f \in DOMAIN updates THEN updates[f]
           ELSE IF f = "updatedAt" THEN ColumnTimestamp(Now)
           ELSE i[f]]
   ELSE i : i \in planItems}

deletePlanItem(userId, id) ==
  {i \in planItems : ~(i.id = id /\ i.userId = userId)}

PlanList(p, type) ==
  LET r == [op |-> "plan.list", user |-> Me(p), type |-> type] IN
  Procedure(p, [op |-> "plan.list", type |-> type], TRUE,
    /\ Complete(p, r @@ [code |-> "OK",
         out |-> getPlanItemsByPeriod(Me(p), type, getPlanPeriodStart(type, Now))])
    /\ UNCHANGED store)

PlanCreate(p, type, title, description) ==
  LET r == [op |-> "plan.create", user |-> Me(p), type |-> type, title |-> title,
            description |-> description] IN
  Procedure(p, [op |-> "plan.create", type |-> type, title |-> title,
                description |-> description],
    ValidTitle(title) /\ ValidDescription(description),
    /\ nextPlanId <= MaxPlans
    /\ planItems' = planItems \cup
         {createPlanItem(Me(p),
            [periodType |-> type,
             periodStart |-> getPlanPeriodStart(type, Now),
             title |-> title,
             description |-> description])}
    /\ nextPlanId' = nextPlanId + 1
    /\ Complete(p, r @@ [code |-> "OK", out |-> nextPlanId])
    /\ UNCHANGED <<users, todos, nextTodoId>>)

\* the first await of plan.toggle and plan.delete: getPlanItemById
PlanLookup(p, r, found, next) ==
  /\ IF found = {}
     THEN Complete(p, r @@ [code |-> "NOT_FOUND"])
     ELSE Goto(p, next, r @@ [completed |-> (CHOOSE i \in found : TRUE).completed])
  /\ UNCHANGED store

PlanToggle(p, id) ==
  Procedure(p, [op |-> "plan.toggle", id |-> id], TRUE,
    PlanLookup(p, [op |-> "plan.toggle", user |-> Me(p), id |-> id],
               getPlanItemById(Me(p), id), "plan_toggle_set"))

\* plan.toggle: await updatePlanItem(ctx.user.id, input.id, {completed: !planItem.completed})
PlanToggleSet(p) ==
  /\ pc[p] = "plan_toggle_set"
  /\ planItems' = updatePlanItem(req[p].user, req[p].id,
                                 [completed |-> ~req[p].completed])
  /\ Goto(p, "plan_toggle_read", req[p])
  /\ UNCHANGED <<env, conn, now, users, todos, nextTodoId, nextPlanId, cookie>>

\* plan.toggle: return await getPlanItemById(...)
PlanToggleRead(p) ==
  /\ pc[p] = "plan_toggle_read"
  /\ Complete(p, Echo(p) @@ [code |-> "OK",
                             out |-> getPlanItemById(req[p].user, req[p].id)])
  /\ UNCHANGED <<env, conn, now, store, cookie>>

PlanDelete(p, id) ==
  Procedure(p, [op |-> "plan.delete", id |-> id], TRUE,
    PlanLookup(p, [op |-> "plan.delete", user |-> Me(p), id |-> id],
               getPlanItemById(Me(p), id), "plan_delete_del"))

\* plan.delete: await deletePlanItem(ctx.user.id, input.id)
PlanDeleteDel(p) ==
  /\ pc[p] = "plan_delete_del"
  /\ planItems' = deletePlanItem(req[p].user, req[p].id)
  /\ Complete(p, Echo(p) @@ [code |-> "OK"])
  /\ UNCHANGED <<env, conn, now, users, todos, nextTodoId, nextPlanId, cookie>>

----
\* server/db: getDb and ensurePlanItemsTable

\* Data-access functions, each starting with `const db = await getDb()`
DataAccess == {"getUserById", "getTodoById", "getPlanItemById"}

\* getDb returns _db to the data-access function fn. Without a handle the user
\* lookups return undefined and the others throw; with one, fn goes on with
\* getSchema() and runs its query on the handle.
Returned(p, r) ==
  Complete(p, r @@ [code |-> "OK",
                    out |-> conn.db,
                    schema |-> IF conn.db = {} THEN "" ELSE getSchema,
                    then |-> IF conn.db # {} THEN "query"
                             ELSE IF r.fn = "getUserById" THEN "return undefined"
                             ELSE "throw Database not available"])

\* mutant: getDb connects whenever a connection string is configured
GetDbCall_NoCache(p, fn) ==
  /\ pc[p] = "idle"
  /\ env.databaseUrl # NoUrl
  /\ conn.created < MaxHandles
  /\ conn' = [conn EXCEPT !.dialect = resolveDialect(env.databaseUrl),
                          !.db = {Handle(conn.created + 1, resolveDialect(env.databaseUrl))},
                          !.created = conn.created + 1]
  /\ Goto(p, "getdb_return", [op |-> "getDb", fn |-> fn, warn |-> "", ddl |-> ""])
  /\ UNCHANGED <<env, now, store, cookie>>

\* getDb up to its first await. With no handle and a connection string it
\* resolves the dialect and constructs the client: the constructor throws
\* (caught: _db = null, returned) or yields the handle, and then
\* ensurePlanItemsTable runs, unless the table is marked ready: for sqlite the
\* statement PLAN_ITEMS_SQLITE executes at once, for mysql PLAN_ITEMS_MYSQL is
\* sent and awaited (ddl is the statement issued). Otherwise _db is returned
\* as it is.
GetDbCall(p, fn) ==
  /\ pc[p] = "idle"
  /\ LET dialect == resolveDialect(env.databaseUrl)
         n == conn.created + 1
         r == [op |-> "getDb", fn |-> fn]
         statement == IF conn.planTableReady THEN ""
                      ELSE IF dialect = "sqlite" THEN "PLAN_ITEMS_SQLITE"
                      ELSE "PLAN_ITEMS_MYSQL" IN
     IF conn.db = {} /\ env.databaseUrl # NoUrl
     THEN \/ /\ conn' = [conn EXCEPT !.dialect = dialect, !.db = {}]
             /\ Complete(p, r @@ [code |-> "OK", out |-> {}, schema |-> "",
                                  warn |-> "Failed to connect", ddl |-> "",
                                  then |-> IF fn = "getUserById" THEN "return undefined"
                                           ELSE "throw Database not available"])
          \/ /\ conn.created < MaxHandles
             /\ \E executed \in BOOLEAN :
                  conn' = [conn EXCEPT
                             !.dialect = dialect,
                             !.db = {Handle(n, dialect)},
                             !.sqlite = IF dialect = "sqlite" THEN {n} ELSE @,
                             !.created = n,
                             !.planTableReady = @ \/ (dialect = "sqlite" /\ executed)]
             /\ Goto(p, IF dialect = "sqlite" \/ conn.planTableReady
                        THEN "getdb_return" ELSE "getdb_ensure",
                     r @@ [warn |-> "", ddl |-> statement])
     ELSE /\ Returned(p, r @@ [warn |-> "", ddl |-> ""])
          /\ UNCHANGED conn
  /\ UNCHANGED <<env, now, store, cookie>>

\* ensurePlanItemsTable on mysql: the awaited CREATE TABLE IF NOT EXISTS ends,
\* executed or failed (caught and logged); getDb returns _db
GetDbEnsured(p) ==
  /\ pc[p] = "getdb_ensure"
  /\ \E executed \in BOOLEAN :
       conn' = [conn EXCEPT !.planTableReady = @ \/ executed]
  /\ Returned(p, req[p])
  /\ UNCHANGED <<env, now, store, cookie>>

\* getDb after `await ensurePlanItemsTable(...)` that had nothing to await
GetDbReturn(p) ==
  /\ pc[p] = "getdb_return"
  /\ Returned(p, req[p])
  /\ UNCHANGED <<env, conn, now, store, cookie>>

\* resolveDialect(databaseUrl), as getDb and getDialect call it on a
\* configured connection string
ResolveDialect(p) ==
  /\ pc[p] = "idle"
  /\ env.databaseUrl # NoUrl
  /\ Complete(p, [op |-> "resolveDialect", code |-> "OK",
                  out |-> resolveDialect(env.databaseUrl)])
  /\ UNCHANGED <<env, conn, now, store, cookie>>

----
\* Specifications

AuthNext ==
  \E p \in Clients :
    \/ \E u \in Usernames, pw \in Passwords, s \in Salts : RegisterCall(p, u, pw, s)
    \/ RegisterInsert(p)
    \/ RegisterRead(p)
    \/ \E u \in Usernames, pw \in Passwords : LoginCall(p, u, pw)
    \/ LoginUpdate(p)
    \/ Logout(p)

\* Registration, login and logout of two clients, from the empty store.
SpecAuth == Init /\ [][Tick \/ AuthNext]_vars

\* Session cookies a client may present: tokens createSessionToken issued a
\* year ago (expired when the clock starts, or expiring at its first tick),
\* yesterday or now, for alice (id 1), for an id without a user record (2) and
\* for the id 0; and the same tokens with one defect each.
OtherSecret == "other-secret"
IssueTimes ==
  {Instant(ClockStart - OneYearDays, ClockMsOfDay),
   Instant(ClockStart + 1 - OneYearDays, ClockMsOfDay),
   Instant(ClockStart + 1 - OneYearDays, ClockMsOfDay + 250),
   Instant(ClockStart - 1, ClockMsOfDay)}
IssuedTokens == {SignJWT(uid, t, "jwt-secret") : uid \in 0 .. 2, t \in IssueTimes}
Defects(token) ==
  {[token EXCEPT !.key = OtherSecret],
   [token EXCEPT !.alg = "HS384"],
   [token EXCEPT !.form = "garbage"]}
  \cup {[token EXCEPT !.idType = x] :
          x \in {"numeric string", "blank string", "other string", "missing"}}
SessionTokens == IssuedTokens \cup UNION {Defects(t) : t \in IssuedTokens}

\* alice has registered (when there is a store); client c1 presents any
\* session cookie or none, client c2 has none.
InitSession ==
  /\ env \in [databaseUrl : DatabaseUrls, cookieSecret : Secrets,
            dbDialect : {NoOverride}]
  /\ conn = Connected(env.databaseUrl)
  /\ now = ClockStart
  /\ users = IF env.databaseUrl = NoUrl THEN {}
             ELSE InsertUser({}, UserValues("alice", hashPassword("secret1", "salt1"))).rows
  /\ todos = {}
  /\ nextTodoId = 1
  /\ planItems = {}
  /\ nextPlanId = 1
  /\ cookie \in {[p \in Clients |-> IF p = "c1" THEN c ELSE {}] :
                   c \in {{}} \cup {{t} : t \in SessionTokens}}
  /\ pc = [p \in Clients |-> "idle"]
  /\ req = [p \in Clients |-> NoReq]
  /\ resp = Quiet

SessionNext ==
  \/ Tick
  \/ \E p \in Clients :
       \/ Authenticate(p)
       \/ VerifySession(p)
       \/ RegisterCall(p, "bob", "secret2", "salt1")
       \/ RegisterInsert(p)
       \/ RegisterRead(p)
       \/ \E pw \in Passwords : LoginCall(p, "alice", pw)
       \/ LoginUpdate(p)
       \/ Logout(p)

\* Requests carrying any session cookie, with registration, login and logout.
SpecSession == InitSession /\ [][SessionNext]_vars

\* Inputs of the todo and plan procedures
TodoIds == 1 .. MaxTodos
PlanIds == 1 .. MaxPlans
PlanTypes == {"week", "month"}
Day(n) == ClockStart + n

\* A session of the user with this id, issued when the clock started
SessionOf(userId) == createSessionToken(userId)

\* The store after alice and bob have registered (SpecAuth reaches it): client
\* c1 holds alice's session, client c2 holds alice's, bob's or none.
InitTodo ==
  /\ env \in [databaseUrl : DatabaseUrls \ {NoUrl}, cookieSecret : Secrets \ {NoSecret},
            dbDialect : {NoOverride}]
  /\ conn = Connected(env.databaseUrl)
  /\ now = ClockStart
  /\ users = InsertUser(
               InsertUser({}, UserValues("alice", hashPassword("secret1", "salt1"))).rows,
               UserValues("bob", hashPassword("secret2", "salt1"))).rows
  /\ todos = {}
  /\ nextTodoId = 1
  /\ planItems = {}
  /\ nextPlanId = 1
  /\ cookie \in {[p \in Clients |-> IF p = "c1" THEN SessionOf(1) ELSE c] :
                   c \in {SessionOf(1), SessionOf(2)}}
  /\ pc = [p \in Clients |-> "idle"]
  /\ req = [p \in Clients |-> NoReq]
  /\ resp = Quiet

\* The todo and plan procedures of two clients with established sessions,
\* their requests interleaved.
TodoCalls(p) ==
  \/ \E t \in {0, 1, MaxTitleLength + 1} : TodoCreate(p, t, {}, {Instant(Day(1), 0)})
  \/ TodoList(p, {Instant(Day(1), 1)})
  \/ TodoHistory(p, Instant(Day(0), 0), Instant(Day(1), 0))
  \/ \E id \in TodoIds : TodoGet(p, id)
  \/ \E id \in TodoIds : TodoUpdate(p, id, [completed |-> TRUE])
  \/ \E id \in TodoIds : TodoDelete(p, id)
  \/ \E id \in TodoIds : TodoToggle(p, id)

TodoSteps(p) ==
  \/ TodoUpdateSet(p)
  \/ TodoUpdateRead(p)
  \/ TodoDeleteDel(p)
  \/ TodoToggleSet(p)
  \/ TodoToggleRead(p)

PlanCalls(p) ==
  \/ \E type \in PlanTypes : PlanList(p, type)
  \/ \E type \in PlanTypes : PlanCreate(p, type, 1, {})
  \/ \E id \in PlanIds : PlanToggle(p, id)
  \/ \E id \in PlanIds : PlanDelete(p, id)

PlanSteps(p) ==
  \/ PlanToggleSet(p)
  \/ PlanToggleRead(p)
  \/ PlanDeleteDel(p)

Next ==
  \E p \in Clients : TodoCalls(p) \/ TodoSteps(p) \/ PlanCalls(p) \/ PlanSteps(p)

Spec == InitTodo /\ [][Next]_vars

\* The same procedures with no request interleaved with another: a client
\* calls only while every other client is idle. The clock advances.
Exclusive(p) == \A q \in Clients \ {p} : pc[q] = "idle"

NextSeq ==
  \/ Tick
  \/ \E p \in Clients :
       Exclusive(p) /\ (TodoCalls(p) \/ TodoSteps(p) \/ PlanCalls(p) \/ PlanSteps(p))

SpecSeq == InitTodo /\ [][NextSeq]_vars

\* a process that has not called getDb yet
InitDb ==
  /\ env \in [databaseUrl : DatabaseUrls, cookieSecret : Secrets,
            dbDialect : {NoOverride}]
  /\ conn = NoConn
  /\ now = ClockStart
  /\ users = {}
  /\ todos = {}
  /\ nextTodoId = 1
  /\ planItems = {}
  /\ nextPlanId = 1
  /\ cookie = [p \in Clients |-> {}]
  /\ pc = [p \in Clients |-> "idle"]
  /\ req = [p \in Clients |-> NoReq]
  /\ resp = Quiet

DbNext ==
  \E p \in Clients :
    \/ \E fn \in DataAccess : GetDbCall(p, fn)
    \/ GetDbEnsured(p)
    \/ GetDbReturn(p)

\* Overlapping data-access calls of a fresh process reaching getDb.
SpecDb == InitDb /\ [][DbNext]_vars

\* Days the plan procedures are called on: six weeks from Monday 2024-01-01,
\* across the end of January.
PlanDays == 0 .. 41

\* alice (client c1) and bob (client c2) are logged in on one of PlanDays
InitPlan ==
  /\ env \in [databaseUrl : DatabaseUrls \ {NoUrl}, cookieSecret : Secrets \ {NoSecret},
            dbDialect : {NoOverride}]
  /\ conn = Connected(env.databaseUrl)
  /\ now \in PlanDays
  /\ users = InsertUser(
               InsertUser({}, UserValues("alice", hashPassword("secret1", "salt1"))).rows,
               UserValues("bob", hashPassword("secret2", "salt1"))).rows
  /\ todos = {}
  /\ nextTodoId = 1
  /\ planItems = {}
  /\ nextPlanId = 1
  /\ cookie = [p \in Clients |-> IF p = "c1" THEN SessionOf(1) ELSE SessionOf(2)]
  /\ pc = [p \in Clients |-> "idle"]
  /\ req = [p \in Clients |-> NoReq]
  /\ resp = Quiet

PlanNext == \E p \in Clients : PlanCalls(p) \/ PlanSteps(p)

\* The plan procedures of two clients on each of PlanDays.
SpecPlan == InitPlan /\ [][PlanNext]_vars

\* Due dates and reference dates around the day after the clock's start: its
\* first and last millisecond, and instants inside its first and last second.
DueTimes == {0, 250, LastMsOfDay - 399, LastMsOfDay}
DueDates == {Instant(Day(1), ms) : ms \in DueTimes}
ReferenceDates == {Instant(Day(n), ms) : n \in 0 .. 3, ms \in {0, LastMsOfDay}}
RangeDates == {Instant(Day(n), ClockMsOfDay) : n \in 0 .. 3}

DatesNext ==
  \/ Tick
  \/ \E due \in DueDates : TodoCreate("c1", 1, {}, {due})
  \/ TodoCreate("c1", 1, {}, {})
  \/ \E date \in ReferenceDates : TodoList("c1", {date})
  \/ TodoList("c1", {})
  \/ \E startDate \in RangeDates, endDate \in RangeDates :
       TodoHistory("c1", startDate, endDate)

\* One client creating todos on chosen due dates and listing days and ranges.
SpecDates == InitTodo /\ [][DatesNext]_vars

\* Inputs of todo.update: every choice of supplied fields
UpdateFields == {"title", "description", "completed", "dueDate"}
UpdateValues ==
  [title |-> 2, description |-> 5, completed |-> TRUE, dueDate |-> Instant(Day(2), 250)]
UpdateInputs == {[f \in S |-> UpdateValues[f]] : S \in SUBSET UpdateFields}

\* client c2 is bob
InitUpdate == InitTodo /\ cookie["c2"] = SessionOf(2)

UpdateNext ==
  \/ Tick
  \/ TodoCreate("c1", 1, {3}, {Instant(Day(1), 0)})
  \/ Exclusive("c2") /\ TodoCreate("c2", 1, {}, {Instant(Day(1), 0)})
  \/ \E id \in 1 .. MaxTodos + 1, updates \in UpdateInputs : TodoUpdate("c1", id, updates)
  \/ TodoUpdateSet("c1")
  \/ TodoUpdateRead("c1")

\* One client creating and updating todos while another only creates its own.
SpecUpdate == InitUpdate /\ [][UpdateNext]_vars

\* The todo and plan procedures of alice (client c1) and bob (client c2),
\* their requests interleaved.
SpecUsers == InitUpdate /\ [][Next]_vars

\* Connection strings with and without the sqlite scheme prefixes and file
\* extensions, in lower and upper case, at and off the string's ends; values
\* of DB_DIALECT that name a dialect in any case, and values that name none.
DialectUrls ==
  {<<"m", "y", "s", "q", "l", ":", "/", "/", "d", "b", "/", "t", "o", "d", "o">>,
   <<"s", "q", "l", "i", "t", "e", ":", "d", "a", "t", "a">>,
   <<"f", "i", "l", "e", ":", "d", "a", "t", "a">>,
   <<"S", "Q", "L", "I", "T", "E", ":", "d", "a", "t", "a">>,
   <<"x", "f", "i", "l", "e", ":", "d", "a", "t", "a">>,
   <<"d", "a", "t", "a", ".", "d", "b">>,
   <<"d", "a", "t", "a", ".", "s", "q", "l", "i", "t", "e">>,
   <<"d", "a", "t", "a", ".", "s", "q", "l", "i", "t", "e", "3">>,
   <<"d", "a", "t", "a", ".", "D", "B">>,
   <<"d", "a", "t", "a", ".", "S", "Q", "L", "i", "t", "e", "3">>,
   <<"d", "a", "t", "a", ".", "d", "b", "3">>,
   <<"d", "a", "t", "a", "d", "b">>,
   <<"a", ".", "d", "b", "/", "b">>}
DialectOverrides ==
  {NoOverride,
   {<<>>},
   {<<"m", "y", "s", "q", "l">>},
   {<<"s", "q", "l", "i", "t", "e">>},
   {<<"M", "y", "S", "Q", "L">>},
   {<<"S", "Q", "L", "I", "T", "E">>},
   {<<"p", "o", "s", "t", "g", "r", "e", "s">>},
   {<<"s", "q", "l", "i", "t", "e", "3">>},
   {<<" ", "s", "q", "l", "i", "t", "e">>}}

InitDialect ==
  /\ env \in [databaseUrl : DialectUrls, cookieSecret : {NoSecret},
              dbDialect : DialectOverrides]
  /\ conn = NoConn
  /\ now = ClockStart
  /\ users = {}
  /\ todos = {}
  /\ nextTodoId = 1
  /\ planItems = {}
  /\ nextPlanId = 1
  /\ cookie = [p \in Clients |-> {}]
  /\ pc = [p \in Clients |-> "idle"]
  /\ req = [p \in Clients |-> NoReq]
  /\ resp = Quiet

DialectNext == \E p \in Clients : ResolveDialect(p)

\* resolveDialect on each connection string under each DB_DIALECT.
SpecDialect == InitDialect /\ [][DialectNext]_vars

\* Inputs of todo.update that carry a userId or an id key besides the
\* declared ones
OwnerInputs ==
  {[userId |-> u] : u \in 1 .. 2}
  \cup {[userId |-> u, completed |-> TRUE] : u \in 1 .. 2}
  \cup {[userId |-> 2, id |-> 2, title |-> 2], [title |-> 2]}

OwnerNext ==
  \E p \in Clients :
    \/ TodoCreate(p, 1, {}, {Instant(Day(1), 0)})
    \/ \E id \in TodoIds, input \in OwnerInputs : TodoUpdate(p, id, input)
    \/ \E id \in TodoIds : TodoToggle(p, id)
    \/ \E id \in TodoIds : TodoDelete(p, id)
    \/ TodoSteps(p)

\* Creates, updates with undeclared keys, toggles and deletes of two clients.
SpecOwner == InitTodo /\ [][OwnerNext]_vars

\* Both clients hold a copy of the same session cookie (or none): one logs
\* out or logs in again while the other goes on presenting its copy.
InitCopies ==
  /\ env \in [databaseUrl : DatabaseUrls, cookieSecret : Secrets,
              dbDialect : {NoOverride}]
  /\ conn = Connected(env.databaseUrl)
  /\ now = ClockStart
  /\ users = IF env.databaseUrl = NoUrl THEN {}
             ELSE InsertUser({}, UserValues("alice", hashPassword("secret1", "salt1"))).rows
  /\ todos = {}
  /\ nextTodoId = 1
  /\ planItems = {}
  /\ nextPlanId = 1
  /\ cookie \in {[p \in Clients |-> c] : c \in {{}} \cup {{t} : t \in IssuedTokens}}
  /\ pc = [p \in Clients |-> "idle"]
  /\ req = [p \in Clients |-> NoReq]
  /\ resp = Quiet

CopiesNext ==
  \/ Tick
  \/ \E p \in Clients :
       \/ Authenticate(p)
       \/ VerifySession(p)
       \/ LoginCall(p, "alice", "secret1")
       \/ LoginUpdate(p)
       \/ Logout(p)

\* Logout and login of a client while a copy of its session token is in use.
SpecCopies == InitCopies /\ [][CopiesNext]_vars

----
\* Claims

\* client p took the step: it sent a response or moved inside its handler
StepOf(p) == resp'[p] # NoResp \/ pc'[p] # pc[p]

ById == {"todo.get", "todo.update", "todo.toggle", "todo.delete"}
PlanById == {"plan.toggle", "plan.delete"}
Listing == {"todo.list", "todo.history", "plan.list"}

\* the response answers a by-id procedure for an entity another user owns
ForeignTodo(r) ==
  /\ r.op \in ById
  /\ r.user # 0
  /\ \E t \in todos : t.id = r.id /\ t.userId # r.user

ForeignPlan(r) ==
  /\ r.op \in PlanById
  /\ r.user # 0
  /\ \E i \in planItems : i.id = r.id /\ i.userId # r.user

C1_NotFound ==
  \A p \in Clients :
    (ForeignTodo(resp[p]) \/ ForeignPlan(resp[p])) => resp[p].code = "NOT_FOUND"

C1_Listed ==
  \A p \in Clients :
    (resp[p].op \in Listing /\ resp[p].code = "OK") =>
      \A e \in resp[p].out : e.userId = resp[p].user

C1_Untouched ==
  \A p \in Clients :
    StepOf(p) =>
      /\ \A t \in todos : t.userId # Me(p) => t \in todos'
      /\ \A i \in planItems : i.userId # Me(p) => i \in planItems'

\* C1: under A's session, todo.get, todo.update, todo.toggle, todo.delete,
\* plan.toggle and plan.delete with the id of an entity owned by another user B
\* answer NOT_FOUND, no step of A's requests changes an entity of B, and
\* todo.list, todo.history and plan.list return only entities A owns.
C1_Isolation == [](C1_NotFound /\ C1_Listed) /\ [][C1_Untouched]_vars

\* bob was answered NOT_FOUND for a todo of alice that exists, and alice was
\* listed her own todos
C1_Witness ==
  /\ \E p \in Clients : ForeignTodo(resp[p]) /\ resp[p].op = "todo.toggle"
  /\ \E t \in todos : t.userId = 1 /\ \E u \in todos : u.userId = 2

\* the row of the todo a request of p is about
RowOf(p) == {t \in todos : t.id = req[p].id /\ t.userId = req[p].user}

\* toggle's write flips the completed flag of the row and of no other row
C6_Flip ==
  \A p \in Clients :
    (pc[p] = "todo_toggle_set" /\ StepOf(p)) =>
      \E t \in RowOf(p) :
        /\ t.completed = req[p].completed
        /\ todos' = (todos \ {t}) \cup
             {[t EXCEPT !.completed = ~t.completed, !.updatedAt = ColumnTimestamp(Now)]}

\* toggle returns the row with completed negated
C6_Return ==
  \A p \in Clients :
    (pc[p] = "todo_toggle_read" /\ StepOf(p)) =>
      /\ resp'[p].code = "OK"
      /\ resp'[p].out = RowOf(p)
      /\ \E t \in resp'[p].out : t.completed = ~req[p].completed
      /\ UNCHANGED store

\* a toggle that follows a toggle of the same todo starts from the flag the
\* first one returned, so the second returns the original flag
C6_Twice ==
  \A p \in Clients :
    (/\ resp[p].op = "todo.toggle" /\ resp[p].code = "OK"
     /\ pc'[p] = "todo_toggle_set" /\ req'[p].id = resp[p].id) =>
      \A t \in resp[p].out : req'[p].completed = t.completed

\* toggle of an id for which the caller owns no todo
C6_Missing ==
  \A p \in Clients :
    (/\ pc[p] = "idle" /\ resp'[p].op = "todo.toggle"
     /\ getTodoById(resp'[p].id, resp'[p].user) = {}) =>
      resp'[p].code = "NOT_FOUND" /\ UNCHANGED store

\* C6: with no other request interleaved, todo.toggle of a todo the caller owns
\* returns it with completed negated, a second toggle returns the original
\* value, and toggle of an id for which the caller owns no todo answers
\* NOT_FOUND and changes nothing.
C6_Toggle == [][C6_Flip /\ C6_Return /\ C6_Twice /\ C6_Missing]_vars

\* a second toggle of the same todo has returned it, not completed again
C6_Witness ==
  \E p \in Clients :
    /\ resp[p].op = "todo.toggle" /\ resp[p].code = "OK"
    /\ \E t \in resp[p].out : ~t.completed /\ t.updatedAt.d > ClockStart

\* the id was given to a todo that is no longer in the table
Deleted(id) == id < nextTodoId /\ \A t \in todos : t.id # id

\* delete's write removes the caller's row with that id and nothing else
C8_Delete ==
  \A p \in Clients :
    (pc[p] = "todo_delete_del" /\ StepOf(p)) =>
      /\ resp'[p].code = "OK"
      /\ todos' = todos \ RowOf(p)
      /\ \A t \in todos' : t.id # req[p].id
      /\ UNCHANGED <<users, nextTodoId, planItems, nextPlanId>>

\* a deleted todo never comes back
C8_Gone == \A id \in TodoIds : Deleted(id) => Deleted(id)'

\* get, update, toggle and delete of an id for which the caller owns no todo,
\* a deleted one included
C8_Missing ==
  \A p \in Clients :
    (/\ pc[p] = "idle" /\ resp'[p].op \in ById /\ resp'[p].user # 0
     /\ getTodoById(resp'[p].id, resp'[p].user) = {}) =>
      resp'[p].code = "NOT_FOUND" /\ UNCHANGED store

\* list and history return rows of the table only
C8_Listed ==
  \A p \in Clients :
    (resp[p].op \in {"todo.list", "todo.history"} /\ resp[p].code = "OK") =>
      resp[p].out \subseteq todos

\* C8: todo.delete removes exactly the caller's todo with that id; from then on
\* the id stays absent (from the table, so from todo.list and todo.history),
\* and get, toggle, update and delete of an id for which the caller owns no
\* todo answer NOT_FOUND and change nothing.
C8_Deletion == []C8_Listed /\ [][C8_Delete /\ C8_Gone /\ C8_Missing]_vars

\* a deleted id was asked for and answered NOT_FOUND while another todo exists
C8_Witness ==
  \E p \in Clients :
    /\ resp[p].op = "todo.get" /\ resp[p].code = "NOT_FOUND"
    /\ Deleted(resp[p].id)
    /\ todos # {}

\* C10: todo.create with an empty title or one longer than 500 characters
\* answers BAD_REQUEST (to an authenticated caller) and the store is unchanged.
C10_Validation ==
  [][\A p \in Clients :
       (/\ pc[p] = "idle" /\ resp'[p].op = "todo.create"
        /\ (resp'[p].title = 0 \/ resp'[p].title > 500)) =>
         /\ resp'[p].user # 0 => resp'[p].code = "BAD_REQUEST"
         /\ resp'[p].code # "OK"
         /\ UNCHANGED store]_vars

\* a title of 501 characters was refused while a todo could still be created
C10_Witness ==
  \E p \in Clients :
    /\ resp[p].op = "todo.create" /\ resp[p].title = 501
    /\ resp[p].code = "BAD_REQUEST"
    /\ nextTodoId <= MaxTodos

\* C2: no two user records have the same username.
C2_UniqueUsername ==
  \A u1 \in users, u2 \in users : u1.username = u2.username => u1 = u2

\* two overlapping registrations of one username: one created the user, the
\* other was stopped by the unique index after its own check had passed
C2_Witness ==
  \E p \in Clients :
    /\ resp[p].op = "register" /\ resp[p].code = "INTERNAL_SERVER_ERROR"
    /\ DbAvailable /\ env.cookieSecret # NoSecret
    /\ \E u \in users : u.username = resp[p].username

\* client p calls auth.register with this username in this step
RegisterCalled(p, username) ==
  /\ pc[p] = "idle"
  /\ \/ pc'[p] = "register_insert" /\ req'[p].username = username
     \/ resp'[p].op = "register" /\ resp'[p].username = username

\* C3: auth.register with a username that already has a user record answers
\* CONFLICT, creates and changes no user record and sets no cookie.
C3_Conflict ==
  [][\A p \in Clients, name \in Usernames :
       (RegisterCalled(p, name) /\ \E u \in users : u.username = name) =>
         /\ resp'[p].code = "CONFLICT"
         /\ pc'[p] = "idle"
         /\ UNCHANGED <<store, cookie>>]_vars

\* a second registration of a taken username was answered CONFLICT
C3_Witness ==
  \E p \in Clients :
    /\ resp[p].op = "register" /\ resp[p].code = "CONFLICT"
    /\ cookie[p] = {}
    /\ Cardinality(users) = 2

\* client p calls auth.login with these credentials in this step
LoginCalled(p, username, password) ==
  /\ pc[p] = "idle"
  /\ \/ /\ pc'[p] = "login_update"
        /\ req'[p].username = username /\ req'[p].password = password
     \/ /\ resp'[p].op = "login"
        /\ resp'[p].username = username /\ resp'[p].password = password

\* the user id the session cookie of p verifies to
SessionUser(p) == UNION {verifySessionToken(t) : t \in cookie[p]}

\* a successful register leaves a session of the record it created
C4_Registered ==
  \A p \in Clients :
    (resp[p].op = "register" /\ resp[p].code = "OK") =>
      /\ SessionUser(p) = {resp[p].out.id}
      /\ \E u \in users : u.id = resp[p].out.id /\ u.username = resp[p].username

\* the login that follows it with the same credentials passes the password check
C4_LoginPasses ==
  \A p \in Clients :
    (/\ resp[p].op = "register" /\ resp[p].code = "OK"
     /\ LoginCalled(p, resp[p].username, resp[p].password)) =>
      /\ pc'[p] = "login_update"
      /\ req'[p].user.id = resp[p].out.id

\* and completes with a session of the same user id
C4_LoginCompletes ==
  \A p \in Clients :
    (pc[p] = "login_update" /\ StepOf(p) /\ env.cookieSecret # NoSecret) =>
      /\ resp'[p].code = "OK"
      /\ resp'[p].out.id = req[p].user.id
      /\ SessionUser(p)' = {req[p].user.id}

\* C4: after auth.register(u, p) succeeds, the auth.login(u, p) that follows
\* it succeeds, and the tokens of both calls verify to the id of the record
\* that register created.
C4_RegisterThenLogin ==
  []C4_Registered /\ [][C4_LoginPasses /\ C4_LoginCompletes]_vars

\* a login has succeeded for the second user registered
C4_Witness ==
  \E p \in Clients :
    /\ resp[p].op = "login" /\ resp[p].code = "OK"
    /\ resp[p].out.id = 2
    /\ SessionUser(p) = {2}

\* the password the stored hash of a user was derived from
PasswordOf(u) == u.passwordHash.key[1]

\* C5: auth.login with a username that has no record, or with a password that
\* does not match the stored hash, answers UNAUTHORIZED with one message,
\* sets no cookie and leaves every user record (lastSignedIn) unchanged.
C5_LoginRefused ==
  [][\A p \in Clients, name \in Usernames, pw \in Passwords :
       (/\ LoginCalled(p, name, pw)
        /\ \A u \in users : u.username = name => PasswordOf(u) # pw) =>
         /\ resp'[p].code = "UNAUTHORIZED"
         /\ resp'[p].message = "Invalid username or password"
         /\ pc'[p] = "idle"
         /\ UNCHANGED <<store, cookie>>]_vars

\* both refusals have happened: an unknown username and a wrong password
C5_Witness ==
  /\ \E p \in Clients :
       /\ resp[p].op = "login" /\ resp[p].code = "UNAUTHORIZED"
       /\ \E u \in users : u.username = resp[p].username /\ PasswordOf(u) # resp[p].password
  /\ Cardinality(users) = 1

\* the response before this step: todo.create succeeded with a due date
CreatedWith(p, D) ==
  /\ resp[p].op = "todo.create" /\ resp[p].code = "OK"
  /\ resp[p].dueDate = {D}

\* the response of this step lists the todo the response before it created
ListsCreated(p) == \E t \in resp'[p].out : t.id = resp[p].out

\* D lies within [start's day at 00:00:00.000, end's day at 23:59:59.999]
WithinDays(D, start, end) ==
  /\ NotBefore(D, Instant(start.d, 0))
  /\ NotBefore(Instant(end.d, LastMsOfDay), D)

\* C7: a todo created with dueDate = D is returned by todo.list(date) exactly
\* when date is on the calendar day of D, and by todo.history(start, end)
\* exactly when D lies within [start's day 00:00:00.000, end's day 23:59:59.999].
C7_DayWindow ==
  [][\A p \in Clients, D \in DueDates :
       CreatedWith(p, D) =>
         /\ (resp'[p].op = "todo.list" /\ resp'[p].code = "OK" /\ resp'[p].date # {}) =>
              (ListsCreated(p) <=> \A date \in resp'[p].date : date.d = D.d)
         /\ (resp'[p].op = "todo.history" /\ resp'[p].code = "OK") =>
              (ListsCreated(p) <=> WithinDays(D, resp'[p].startDate, resp'[p].endDate))]_vars

\* the row an update in flight is about, as it is before the write
UpdatedRow(p) == {t \in todos : t.id = req[p].id /\ t.userId = req[p].user}

\* the write of todo.update keeps every field that was not supplied
C9_Frame ==
  \A p \in Clients :
    (pc[p] = "todo_update_set" /\ StepOf(p)) =>
      /\ \A t \in UpdatedRow(p) :
           \E t2 \in todos' :
             /\ t2.id = t.id /\ t2.userId = t.userId
             /\ \A f \in UpdateFields \ DOMAIN req[p].updates : t2[f] = t[f]
      /\ \A t \in todos \ UpdatedRow(p) : t \in todos'
      /\ Cardinality(todos') = Cardinality(todos)
      /\ UNCHANGED <<users, nextTodoId, planItems, nextPlanId>>

\* todo.update on an id the caller owns no todo of
C9_NotFound ==
  \A p \in Clients : \A uid \in SessionUser(p) :
    (/\ pc[p] = "idle"
     /\ resp'[p].op = "todo.update"
     /\ ~\E t \in todos : t.id = resp'[p].id /\ t.userId = uid) =>
      /\ resp'[p].code = "NOT_FOUND"
      /\ UNCHANGED store

\* the row todo.update returns is the row as the write left it
C9_Returned ==
  \A p \in Clients :
    (pc[p] = "todo_update_read" /\ StepOf(p)) =>
      /\ resp'[p].code = "OK"
      /\ resp'[p].out = UpdatedRow(p)

\* C9: todo.update changes only the fields supplied in its input (and
\* updatedAt): completed, title, description and dueDate are each left as they
\* were unless supplied; on an id the caller owns no todo of it answers
\* NOT_FOUND and changes nothing.
C9_UpdateFrame == [][C9_Frame /\ C9_NotFound /\ C9_Returned]_vars

\* an update of the title alone has returned a todo that is still completed
\* and still has its description
C9_Witness ==
  \E p \in Clients :
    /\ resp[p].op = "todo.update" /\ resp[p].code = "OK"
    /\ DOMAIN resp[p].updates = {"title"}
    /\ \E t \in resp[p].out :
         t.title = 2 /\ t.completed /\ t.description = {3}

\* an authenticateRequest that failed
AuthFailed(r) == r.op = "authenticate" /\ r.code = "FORBIDDEN"

\* C11: authenticateRequest fails with the same forbidden signal for a missing
\* cookie, an invalid or expired token and a user id without a record: any two
\* failures that follow each other are the same error, so the cause cannot be told.
C11_SameSignal ==
  [][\A p \in Clients, q \in Clients :
       (AuthFailed(resp[p]) /\ AuthFailed(resp'[q])) => resp'[q].error = resp[p].error]_vars

\* C12: no value returned by auth.register, auth.login or authenticateRequest
\* has a passwordHash field.
C12_NoPasswordHash ==
  \A p \in Clients :
    (resp[p].op \in {"register", "login", "authenticate"} /\ resp[p].code = "OK") =>
      "passwordHash" \notin DOMAIN resp[p].out

\* authenticateRequest has returned bob, who registered, after alice logged in
\* on the second day; the record of bob holds a password hash
C12_Witness ==
  \E p \in Clients :
    /\ resp[p].op = "authenticate" /\ resp[p].code = "OK"
    /\ resp[p].out.username = "bob"
    /\ \E u \in users : u.id = resp[p].out.id /\ u.passwordHash.key # <<>>
    /\ \E u \in users : u.username = "alice" /\ u.lastSignedIn.d = ClockStart + 1

\* the token is validly signed for this process and not expired
ValidNow(token) ==
  /\ token.form = "jwt"
  /\ token.alg = "HS256"
  /\ env.cookieSecret # NoSecret
  /\ token.key = env.cookieSecret
  /\ Before(Now, token.exp)

\* C13: verifySessionToken never throws; it returns null for a token that is
\* malformed, expired, signed with another key or algorithm or without a
\* usable userId, and a user id only for a validly signed, unexpired token.
C13_VerifyTotal ==
  \A p \in Clients :
    resp[p].op = "verify" =>
      /\ resp[p].code = "OK"
      /\ resp[p].out # {} => (ValidNow(resp[p].token) /\ resp[p].out = {resp[p].token.userId})
      /\ ~ValidNow(resp[p].token) => resp[p].out = {}
      /\ resp[p].token.idType \in {"blank string", "other string", "missing"} =>
           resp[p].out = {}

\* a token that was valid when the clock started is verified after it
\* expired, and the answer is null
C13_Witness ==
  \E p \in Clients :
    /\ resp[p].op = "verify" /\ resp[p].code = "OK" /\ resp[p].out = {}
    /\ resp[p].token \in IssuedTokens
    /\ env.cookieSecret = resp[p].token.key
    /\ resp[p].token.exp = Now

\* t plus ONE_YEAR_MS
OneYearAfter(t) == Instant(t.d + OneYearDays, t.ms)

\* client p has verified the token createSessionToken issued for uid at time t
VerifiedIssued(p, uid, t) ==
  /\ resp[p].op = "verify"
  /\ env.cookieSecret # NoSecret
  /\ resp[p].token = SignJWT(uid, t, env.cookieSecret)

\* a session cookie changes only by being cleared or by a new issuance
C14_NoRenewal ==
  \A p \in Clients :
    cookie'[p] # cookie[p] =>
      \A token \in cookie'[p] : token.exp = FloorToSecond(OneYearAfter(Now))

\* C14 as stated: the expiry of a token issued at t is t + one year;
\* verifySessionToken returns the user id at every time before it and null at
\* every time after it, and no operation changes the expiry of an issued token.
C14_ExpiryOneYear ==
  /\ [](\A p \in Clients, uid \in 0 .. 2, t \in IssueTimes :
          VerifiedIssued(p, uid, t) =>
            /\ Before(Now, OneYearAfter(t)) => resp[p].out = {uid}
            /\ Before(OneYearAfter(t), Now) => resp[p].out = {})
  /\ [][C14_NoRenewal]_vars

\* C14 amended: the expiry of a token issued at t is the whole second of
\* t + one year (up to 999 ms earlier); verifySessionToken returns the user id
\* at every time before that second and null from that second on, and no
\* operation changes the expiry of an issued token.
C14_ExpiryWholeSecond ==
  /\ [](\A p \in Clients, uid \in 0 .. 2, t \in IssueTimes :
          VerifiedIssued(p, uid, t) =>
            /\ Before(Now, FloorToSecond(OneYearAfter(t))) => resp[p].out = {uid}
            /\ NotBefore(Now, FloorToSecond(OneYearAfter(t))) => resp[p].out = {})
  /\ [][C14_NoRenewal]_vars

\* a token issued 250 ms after a whole second is verified in the second it
\* expires in, before a full year has passed, and the answer is null
C14_Witness ==
  \E p \in Clients, t \in IssueTimes :
    /\ VerifiedIssued(p, 1, t)
    /\ t.ms = ClockMsOfDay + 250
    /\ Before(Now, OneYearAfter(t))
    /\ resp[p].out = {}

\* C15: while the store is unavailable, auth.register, auth.login and the
\* authentication of a request that carries a valid session token fail with a
\* server-fault error, not with an authentication or not-found outcome.
C15_Unavailable ==
  \A p \in Clients :
    (/\ ~DbAvailable
     /\ \/ resp[p].op \in {"register", "login"}
        \/ /\ resp[p].op = "authenticate"
           /\ \E t \in resp[p].cookie : ValidNow(t) /\ t.idType = "number" /\ t.userId # 0) =>
      resp[p].code = "INTERNAL_SERVER_ERROR"

\* C16: no register or login fails at request time because JWT_SECRET is not
\* configured.
C16_NoRequestFailure ==
  \A p \in Clients :
    (resp[p].op \in {"register", "login"} /\ "message" \in DOMAIN resp[p]) =>
      resp[p].message # "JWT_SECRET is not configured"

\* the Monday 00:00:00.000 of the week of day d (day 0 is a Monday)
MondayOf(d) == Instant(d - (d % 7), 0)

\* the 1st 00:00:00.000 of the month of day d, for January to March 2024
FirstOfMonth(d) == Instant(IF d < 31 THEN 0 ELSE IF d < 60 THEN 31 ELSE 60, 0)

\* C17: getPlanPeriodStart("week", d) is the Monday 00:00:00.000 of the week
\* of d (six days before a Sunday, the day itself for a Monday) and
\* getPlanPeriodStart("month", d) the 1st of d's month at 00:00:00.000; a plan
\* item is stored with the period start of the day it is created on.
C17_PeriodStart ==
  /\ getPlanPeriodStart("week", Now) = MondayOf(now)
  /\ now % 7 = 6 => getPlanPeriodStart("week", Now).d = now - 6
  /\ now % 7 = 0 => getPlanPeriodStart("week", Now).d = now
  /\ getPlanPeriodStart("month", Now) = FirstOfMonth(now)
  /\ \A i \in planItems :
       i.periodStart = IF i.periodType = "week" THEN MondayOf(now) ELSE FirstOfMonth(now)

\* a week item created on Wednesday 2024-01-31 is stored under Monday 2024-01-29
C17_Witness ==
  /\ now = 30
  /\ now % 7 = 2
  /\ \E i \in planItems :
       i.periodType = "week" /\ i.periodStart = Instant(28, 0)
  /\ \E p \in Clients : resp[p].op = "plan.create" /\ resp[p].code = "OK"

\* C18: every stored plan item has a normalized periodStart (a Monday at
\* 00:00:00.000 for week, the 1st of a month at 00:00:00.000 for month), and no
\* operation changes the periodType or periodStart of a stored item.
C18_Normalized ==
  /\ [](\A i \in planItems :
          /\ i.periodStart.ms = 0
          /\ i.periodType = "week" => i.periodStart.d % 7 = 0
          /\ i.periodType = "month" => i.periodStart.d \in {0, 31, 60})
  /\ [][\A i \in planItems, j \in planItems' :
          i.id = j.id => (j.periodType = i.periodType /\ j.periodStart = i.periodStart)]_vars

\* a month item created in February has been toggled and is still under February 1st
C18_Witness ==
  \E p \in Clients :
    /\ resp[p].op = "plan.toggle" /\ resp[p].code = "OK"
    /\ \E i \in resp[p].out :
         i.completed /\ i.periodType = "month" /\ i.periodStart = Instant(31, 0)
    /\ now > 31

\* C19: getDb creates the handle lazily in a call made while a database URL is
\* configured; once a handle exists every getDb call, overlapping ones
\* included, returns that handle and no second one is created; when creating
\* it throws, the handle stays null and getDb returns null, not the error.
C19_OneHandle ==
  /\ [](/\ conn.created <= 1
        /\ env.databaseUrl = NoUrl => conn.created = 0
        /\ \A p \in Clients :
             resp[p].op = "getDb" =>
               /\ resp[p].code = "OK"
               /\ resp[p].out = conn.db
               /\ resp[p].warn = "Failed to connect" => resp[p].out = {})
  /\ [][/\ conn.db # {} => conn'.db = conn.db
        /\ conn'.created # conn.created =>
             \E p \in Clients : pc[p] = "idle" /\ pc'[p] # "idle" /\ conn.db = {}]_vars

\* a second call overlapped the first, which still awaits ensurePlanItemsTable,
\* and was given the one handle
C19_Witness ==
  \E p \in Clients, q \in Clients :
    /\ pc[p] = "getdb_ensure"
    /\ resp[q].op = "getDb" /\ resp[q].out = conn.db /\ conn.db # {}
    /\ conn.created = 1

\* C20: once resolved, the cached dialect never changes, and the schema tables
\* a query uses are those of the dialect of the handle it runs on.
C20_OneDialect ==
  /\ [](/\ \A h \in conn.db : h.dialect = conn.dialect /\ getSchema = h.dialect
        /\ \A p \in Clients :
             resp[p].op = "getDb" => \A h \in resp[p].out : resp[p].schema = h.dialect)
  /\ [][conn.dialect # "" => conn'.dialect = conn.dialect]_vars

\* a query runs on a sqlite handle with the sqlite schema
C20_Witness ==
  \E p \in Clients :
    /\ resp[p].op = "getDb"
    /\ \E h \in resp[p].out : h.dialect = "sqlite"
    /\ resp[p].schema = "sqlite"
    /\ conn.dialect = "sqlite"

----
\* C21: resolveDialect returns the DB_DIALECT override, compared without
\* regard to case, when it is mysql or sqlite; otherwise sqlite for a
\* connection string that starts with "sqlite:" or "file:" or ends in .db,
\* .sqlite or .sqlite3, and mysql for every other one.

\* DB_DIALECT names this dialect in some spelling of upper and lower case
Overrides(name) == \E v \in env.dbDialect : toLowerCase(v) = name

SchemePrefix(url) == startsWith(url, SqlitePrefix) \/ startsWith(url, FilePrefix)

\* the dialect the claim gives, the file extension matched by this test
Resolved(extension) ==
  IF Overrides(Mysql) THEN "mysql"
  ELSE IF Overrides(Sqlite) THEN "sqlite"
  ELSE IF SchemePrefix(env.databaseUrl) \/ extension THEN "sqlite"
  ELSE "mysql"

\* C21 as stated: the connection string ends in .db, .sqlite or .sqlite3
C21_Resolve ==
  \A p \in Clients :
    resp[p].op = "resolveDialect" =>
      resp[p].out = Resolved(\E x \in SqliteSuffixes : endsWith(env.databaseUrl, x))

\* C21 amended: the file extension is matched without regard to case, like
\* the override; the scheme prefixes are matched exactly
C21_ResolveAnyCase ==
  \A p \in Clients :
    resp[p].op = "resolveDialect" =>
      resp[p].out =
        Resolved(\E x \in SqliteSuffixes : endsWith(toLowerCase(env.databaseUrl), x))

\* a mixed-case override wins over a connection string of the other dialect
C21_Witness ==
  \E p \in Clients :
    /\ resp[p].op = "resolveDialect"
    /\ env.dbDialect = {<<"M", "y", "S", "Q", "L">>}
    /\ env.databaseUrl = <<"d", "a", "t", "a", ".", "D", "B">>
    /\ resp[p].out = "mysql"

----
\* C22: only the sqlite dialect creates table plan_items at connection time;
\* on mysql getDb issues no table-creation statement.
C22_SqliteOnly ==
  \A p \in Clients :
    /\ pc[p] \in {"getdb_ensure", "getdb_return"} /\ req[p].ddl # "" => conn.dialect = "sqlite"
    /\ resp[p].op = "getDb" /\ resp[p].ddl # "" => conn.dialect = "sqlite"

----
\* C23: when a delete of the same todo by the same user commits between
\* todo.toggle's read and its write, the write matches no row and leaves the
\* table as it is, the read-back finds no todo (toggle answers OK with null),
\* and the todo stays absent from then on.

\* client p's toggle has read its todo and the row has been deleted since
ToggleLostRow(p) ==
  /\ req[p].op = "todo.toggle"
  /\ getTodoById(req[p].id, req[p].user) = {}

C23_ToggleDeleteRace ==
  /\ [](\A p \in Clients :
          pc[p] = "todo_toggle_read" /\ req[p].affected = 0 => ToggleLostRow(p))
  /\ [][\A p \in Clients :
          /\ pc[p] = "todo_toggle_set" /\ ToggleLostRow(p) /\ StepOf(p) =>
               /\ todos' = todos
               /\ pc'[p] = "todo_toggle_read"
               /\ req'[p].affected = 0
          /\ pc[p] = "todo_toggle_read" /\ ToggleLostRow(p) /\ StepOf(p) =>
               /\ resp'[p].code = "OK"
               /\ resp'[p].out = {}
               /\ todos' = todos
          /\ pc[p] \in {"todo_toggle_set", "todo_toggle_read"} /\ ToggleLostRow(p) =>
               \A t \in todos' : t.id # req[p].id]_vars

\* the toggle's write has matched no row: another client of the same user has
\* deleted the todo after the toggle read it
C23_Witness ==
  \E p \in Clients :
    /\ pc[p] = "todo_toggle_read"
    /\ req[p].affected = 0
    /\ req[p].id < nextTodoId
    /\ \A t \in todos : t.id # req[p].id

----
\* C24: operations of different users are independent. As stated: what user A
\* is answered and A's entities are as if the other users' operations had not
\* run, so the id A's create returns counts A's own creates only.
\* Amended: a step of another user's request changes no entity of A, and each
\* answer to A and each change of A's entities is determined by A's own
\* entities, the request and the clock, except the ids of the entities A
\* creates, which the tables' shared AUTO_INCREMENT counters assign.

OwnTodos(u) == {t \in todos : t.userId = u}
OwnPlans(u) == {i \in planItems : i.userId = u}
OwnTodo(u, id) == {t \in OwnTodos(u) : t.id = id}
OwnPlan(u, id) == {i \in OwnPlans(u) : i.id = id}

\* the user a step of client p acts for
Actor(p) == IF pc[p] = "idle" THEN Me(p) ELSE req[p].user

\* C24 as stated, for create: every row of another user is a create the
\* counter would not have counted
C24_OwnIds ==
  \A p \in Clients :
    /\ resp[p].op = "todo.create" /\ resp[p].code = "OK" =>
         resp[p].out + Cardinality(todos \ OwnTodos(resp[p].user)) < nextTodoId
    /\ resp[p].op = "plan.create" /\ resp[p].code = "OK" =>
         resp[p].out + Cardinality(planItems \ OwnPlans(resp[p].user)) < nextPlanId

\* a step changes only entities of the user it acts for
C24_Frame(actor) ==
  \A u \in {x.id : x \in users} \ {actor} :
    OwnTodos(u)' = OwnTodos(u) /\ OwnPlans(u)' = OwnPlans(u)

\* the by-id lookups find exactly the actor's own entity
C24_Lookup(p, u, r) ==
  LET q == req'[p] IN
  /\ r.code = "NOT_FOUND" =>
       IF r.op \in ById THEN OwnTodo(u, r.id) = {} ELSE OwnPlan(u, r.id) = {}
  /\ pc[p] = "idle" /\ pc'[p] # "idle" =>
       IF q.op \in ById
       THEN \E t \in OwnTodo(u, q.id) : q.completed = t.completed
       ELSE \E i \in OwnPlan(u, q.id) : q.completed = i.completed

\* what is returned is computed from the actor's own entities
C24_Answer(u, r) ==
  r.code = "OK" =>
    CASE r.op \in {"todo.get", "todo.update", "todo.toggle"} -> r.out = OwnTodo(u, r.id)
      [] r.op = "todo.list" ->
           r.out = {t \in OwnTodos(u) :
                      \A d \in r.date : DueWithin(t, StartOfDay(d), EndOfDay(d))}
      [] r.op = "todo.history" ->
           r.out = {t \in OwnTodos(u) :
                      DueWithin(t, StartOfDay(r.startDate), EndOfDay(r.endDate))}
      [] r.op = "plan.list" ->
           r.out = {i \in OwnPlans(u) :
                      /\ i.periodType = r.type
                      /\ i.periodStart = ColumnTimestamp(getPlanPeriodStart(r.type, Now))}
      [] r.op = "plan.toggle" -> r.out = OwnPlan(u, r.id)
      [] OTHER -> TRUE

\* the actor's entities after the step, from the actor's entities before it
C24_Effect(p, u, r) ==
  /\ OwnTodos(u)' =
       CASE pc[p] = "todo_update_set" ->
              {IF t.id = req[p].id THEN SetTodo(t, req[p].updates) ELSE t : t \in OwnTodos(u)}
         [] pc[p] = "todo_toggle_set" ->
              {IF t.id = req[p].id THEN SetTodo(t, [completed |-> ~req[p].completed])
               ELSE t : t \in OwnTodos(u)}
         [] pc[p] = "todo_delete_del" -> {t \in OwnTodos(u) : t.id # req[p].id}
         [] r.op = "todo.create" /\ r.code = "OK" ->
              OwnTodos(u) \cup
                {[id |-> r.out, userId |-> u, updatedAt |-> ColumnTimestamp(Now)]
                   @@ TodoData(r.title, r.description, r.dueDate)}
         [] OTHER -> OwnTodos(u)
  /\ OwnPlans(u)' =
       CASE pc[p] = "plan_toggle_set" ->
              {IF i.id = req[p].id
               THEN [i EXCEPT !.completed = ~req[p].completed,
                              !.updatedAt = ColumnTimestamp(Now)]
               ELSE i : i \in OwnPlans(u)}
         [] pc[p] = "plan_delete_del" -> {i \in OwnPlans(u) : i.id # req[p].id}
         [] r.op = "plan.create" /\ r.code = "OK" ->
              OwnPlans(u) \cup
                {[id |-> r.out, userId |-> u, periodType |-> r.type,
                  periodStart |-> ColumnTimestamp(getPlanPeriodStart(r.type, Now)),
                  title |-> r.title, description |-> r.description,
                  completed |-> FALSE, updatedAt |-> ColumnTimestamp(Now)]}
         [] OTHER -> OwnPlans(u)
  /\ r.op \in {"todo.create", "plan.create"} /\ r.code = "OK" =>
       /\ OwnTodo(u, r.out) = {} \/ r.op # "todo.create"
       /\ OwnPlan(u, r.out) = {} \/ r.op # "plan.create"

C24_Independent ==
  [][\A p \in Clients :
       StepOf(p) =>
         \A u \in {Actor(p)}, r \in {resp'[p]} :
           C24_Frame(u) /\ C24_Lookup(p, u, r) /\ C24_Answer(u, r) /\ C24_Effect(p, u, r)]_vars

\* alice was returned her own todo by toggle while bob holds a todo with a
\* smaller id and one of his requests is in flight
C24_Witness ==
  \E p, q \in Clients :
    /\ resp[p].op = "todo.toggle" /\ resp[p].code = "OK"
    /\ \E t \in resp[p].out : \E b \in todos : b.userId # t.userId /\ b.id < t.id
    /\ pc[q] # "idle" /\ req[q].user # resp[p].user

----
\* C25: when two auth.register requests for one username overlap, one creates
\* the user and the other is answered CONFLICT: a registration that reaches
\* its insert after the username was taken is answered CONFLICT.
C25_OverlapConflict ==
  [][\A p \in Clients :
       (/\ pc[p] = "register_insert"
        /\ StepOf(p)
        /\ \E u \in users : u.username = req[p].username) =>
         /\ users' = users
         /\ resp'[p].code = "CONFLICT"]_vars

----
\* C26: when two todo.toggle requests of one user for the same todo overlap,
\* no toggle is lost: both read the flag before either wrote it, and after the
\* second write the stored flag is the one they read, flipped twice.
C26_NoLostToggle ==
  [][\A p \in Clients, q \in Clients :
       (/\ p # q
        /\ pc[p] = "todo_toggle_set" /\ StepOf(p)
        /\ pc[q] = "todo_toggle_read"
        /\ req[q].id = req[p].id /\ req[q].user = req[p].user
        /\ req[q].completed = req[p].completed
        /\ req[q].affected = 1) =>
         \A t \in todos' :
           t.id = req[p].id => t.completed = req[p].completed]_vars

----
\* C27: auth.register is all-or-nothing: a request that is answered with an
\* error has created no user record, and a request that has created its user
\* record returns that user and sets the session cookie.
C27_AllOrNothing ==
  [][\A p \in Clients :
       /\ (/\ pc[p] \in {"idle", "register_insert"}
           /\ resp'[p].op = "register"
           /\ resp'[p].code # "OK") => users' = users
       /\ (pc[p] = "register_read" /\ StepOf(p)) =>
            /\ resp'[p].code = "OK"
            /\ resp'[p].out.username = req[p].username
            /\ cookie'[p] # {}]_vars

----
\* C28: a todo's id and owning userId never change after creation: every row
\* after a step is a row of before with its id and userId, or the row a create
\* inserted under the next id; rows share no id; todo.update cannot set userId
\* through its input.
C28_OwnerFixed ==
  /\ [](\A t1 \in todos, t2 \in todos : t1.id = t2.id => t1 = t2)
  /\ [][/\ \A t2 \in todos' :
             \/ \E t \in todos : t.id = t2.id /\ t.userId = t2.userId
             \/ /\ t2.id = nextTodoId
                /\ nextTodoId' = nextTodoId + 1
                /\ \E p \in Clients : resp'[p].op = "todo.create" /\ t2.userId = resp'[p].user
        /\ \A p \in Clients :
             pc[p] = "todo_update_set" /\ StepOf(p) =>
               \A t \in todos : \E t2 \in todos' : t2.id = t.id /\ t2.userId = t.userId]_vars

\* alice's update that named bob as userId has returned the todo, still
\* alice's and changed by the update
C28_Witness ==
  \E p \in Clients :
    /\ resp[p].op = "todo.update" /\ resp[p].code = "OK"
    /\ "userId" \in DOMAIN resp[p].input
    /\ resp[p].input.userId # resp[p].user
    /\ \E t \in resp[p].out : t.userId = resp[p].user /\ t.completed

----
\* C29: auth.logout does not revoke the session token. It answers success
\* with or without a session, tells the client to clear its cookie (negative
\* max-age) and touches nothing else; a token that verified before a step
\* (logout, login, any other) and has not expired after it verifies to the
\* same user id after it, and a client holding a copy stays authenticated as
\* the same user.

\* the tokens in the clients' hands and those issued earlier
TokensInUse == IssuedTokens \cup UNION {cookie[p] : p \in Clients}

\* the id of the user authenticateRequest returns for the client's cookie
AuthenticatedAs(p) == {u.id : u \in authenticateRequest(p)}

C29_Logout ==
  \A p \in Clients :
    resp'[p].op = "logout" =>
      /\ pc[p] = "idle"
      /\ resp'[p].code = "OK" /\ resp'[p].maxAge < 0
      /\ cookie' = [cookie EXCEPT ![p] = {}]
      /\ UNCHANGED store

C29_StillVerifies ==
  /\ \A token \in TokensInUse :
       (/\ verifySessionToken(token) # {}
        /\ Before(FloorToSecond(Now'), token.exp)) =>
         verifySessionToken(token)' = verifySessionToken(token)
  /\ \A p \in Clients :
       (/\ cookie'[p] = cookie[p]
        /\ AuthenticatedAs(p) # {}
        /\ \A token \in cookie[p] : Before(FloorToSecond(Now'), token.exp)) =>
         AuthenticatedAs(p)' = AuthenticatedAs(p)

C29_NoRevocation == [][C29_Logout /\ C29_StillVerifies]_vars

\* after its peer logged out and alice logged in again a day later, a client
\* has been authenticated as alice with the token both held from the start
C29_Witness ==
  \E p, q \in Clients :
    /\ p # q
    /\ cookie[p] = {} /\ cookie[q] # {}
    /\ resp[q].op = "authenticate" /\ resp[q].code = "OK" /\ resp[q].out.id = 1
    /\ resp[q].cookie = cookie[q]
    /\ \A token \in cookie[q] : token.exp.d = ClockStart - 1 + OneYearDays
    /\ \E u \in users : u.id = 1 /\ u.lastSignedIn.d = ClockStart + 1

----
\* C30: no caller obtains a handle from getDb before ensurePlanItemsTable has
\* completed successfully for it: whenever getDb returns a handle, table
\* plan_items has been ensured.
C30_EnsuredFirst ==
  \A p \in Clients :
    resp[p].op = "getDb" /\ resp[p].out # {} => conn.planTableReady

====
